---- MODULE Spec2Model ----
(***************************************************************************)
(* Smart Triage: the database schema with its row-level security policies  *)
(* and triggers (supabase/migrations), and the React pages that read and   *)
(* write it (PriorityQueue, ChatbotTriage, PatientIntake, Settings).       *)
(***************************************************************************)
EXTENDS Integers, Sequences, FiniteSets, TLC

\* ------------------------------------------------------------------ bounds
\* Rows the four health-data tables hold in total.
MaxRows == 3
\* Rows of triage_results when the queue page is opened.
MaxQueueRows == 3
\* The database clock runs from tick 0 to MaxTime.
MaxTime == 2
\* Clock ticks per millisecond (timestamptz keeps microseconds, a JavaScript
\* Date milliseconds).
TicksPerMs == 2
\* Change events and fetches outstanding at once.
MaxPending == 2
\* User messages of one chatbot conversation.
MaxUserMessages == 6
\* Fragments a typed text is put together from.
MaxFragments == 3
\* User messages of a conversation whose replies are awaited.
MaxFairMessages == 3
\* The analytics page is opened at the end of day MaxDays, a day being
\* TicksPerDay ticks of the clock there.
MaxDays == 8
TicksPerDay == 2
\* Rows of triage_results when the analytics page is opened.
MaxAnalyticsRows == 2

\* ------------------------------------------------------- program constants
Users == {"u1", "u2"}
\* auth.uid() of a request that carries no session (SQL NULL).
NoUser == "none"
\* CREATE TYPE public.app_role AS ENUM ('patient', 'healthcare_staff')
app_role == {"patient", "healthcare_staff"}
\* CREATE TYPE public.urgency_level AS ENUM ('low', 'medium', 'high')
urgency_level == {"low", "medium", "high"}
Null == "NULL"

VARIABLES
    \* ---- database
    authUsers,        \* auth.users: the ids of the signed-up users
    user_roles,       \* public.user_roles: [user_id, role]
    profiles,         \* public.profiles: [user_id, email, full_name,
                      \*   created_at, updated_at]
    chat_sessions,    \* public.chat_sessions: [id, user_id, messages, status,
                      \*   created_at, updated_at]
    patient_intake,   \* public.patient_intake: [id, user_id, symptoms]
    triage_results,   \* public.triage_results: [id, user_id, urgency, created_at]
    alerts,           \* public.alerts: [id, user_id, is_read]
    now,              \* the database clock, now()
    \* ---- the signed-in user of the page (useAuth().user), or NoUser
    user,
    \* ---- realtime: the 'queue-changes' channel and the change events the
    \* server has sent it that the client has not handled yet
    channel,
    events,
    \* ---- Settings page
    settingsIsLoading,
    settingsToast,
    \* ---- PriorityQueue page
    mounted,          \* the component is mounted
    queue,            \* useState queue
    queueIsLoading,   \* useState isLoading
    inflight,         \* fetchQueue calls awaiting their response
    fetchError,       \* `error` of the last response fetchQueue received
    \* ---- ChatbotTriage page
    messages,             \* useState messages
    input,                \* useState input
    chatIsLoading,        \* useState isLoading
    showEmergencyBanner,  \* useState showEmergencyBanner
    timer,                \* the pending setTimeout callbacks' closures, one at most
    \* ---- PatientIntake page
    symptoms,             \* formData.symptoms
    intakeIsLoading,      \* useState isLoading
    isSubmitted,          \* useState isSubmitted
    intakeToast,          \* the toast shown last
    redirectScheduled,    \* the setTimeout that navigates to /results is set
    intakePc,             \* where handleSubmit stands: idle or at an await
    \* ---- WorkloadAnalytics page
    dailyData,            \* useState dailyData
    analyticsIsLoading    \* useState isLoading

dbVars == <<authUsers, user_roles, profiles, chat_sessions, patient_intake,
            triage_results, alerts, now>>
settingsVars == <<settingsIsLoading, settingsToast>>
queueVars == <<mounted, queue, queueIsLoading, inflight, fetchError>>
\* What no database operation touches.
chatVars == <<messages, input, chatIsLoading, showEmergencyBanner, timer>>
intakeVars == <<symptoms, intakeIsLoading, isSubmitted, intakeToast,
                redirectScheduled, intakePc>>
analyticsVars == <<dailyData, analyticsIsLoading>>
\* What no database operation touches.
pageVars == <<user, channel, settingsVars, queueVars, chatVars, intakeVars,
              analyticsVars>>
\* What the actions of one page leave alone of the other pages.
notQueue == <<settingsVars, chatVars, intakeVars, analyticsVars>>
notSettings == <<queueVars, chatVars, intakeVars, analyticsVars>>
notChat == <<user, channel, settingsVars, queueVars, intakeVars,
             analyticsVars>>
notIntake == <<user, channel, settingsVars, queueVars, chatVars,
               analyticsVars>>
notAnalytics == <<user, channel, settingsVars, queueVars, chatVars,
                  intakeVars>>
vars == <<dbVars, events, pageVars>>

\* ------------------------------------------------------------ the database
Tables == {"user_roles", "profiles", "chat_sessions", "patient_intake",
           "triage_results", "alerts"}
HealthTables == {"chat_sessions", "patient_intake", "triage_results", "alerts"}

Table(t) ==
    CASE t = "user_roles" -> user_roles
      [] t = "profiles" -> profiles
      [] t = "chat_sessions" -> chat_sessions
      [] t = "patient_intake" -> patient_intake
      [] t = "triage_results" -> triage_results
      [] t = "alerts" -> alerts

TotalRows ==
    Cardinality(chat_sessions) + Cardinality(patient_intake)
      + Cardinality(triage_results) + Cardinality(alerts)

\* gen_random_uuid(): an id no row of the table carries.
NewId(rows) == CHOOSE i \in 1..(Cardinality(rows) + 1) : \A r \in rows : r.id # i

\* public.has_role(_user_id, _role)
has_role(_user_id, _role) ==
    \E r \in user_roles : r.user_id = _user_id /\ r.role = _role

\* Mutants of SelectPolicy: a policy USING (auth.uid() IS NOT NULL), and a
\* schema without the "Healthcare staff can view all ..." policies.
SelectPolicyAnyAuthenticated(t, uid, row) == uid # NoUser
SelectPolicyOwnOnly(t, uid, row) == uid = row.user_id

\* The FOR SELECT policies of a table, OR-ed (permissive policies); uid is
\* auth.uid().
SelectPolicy(t, uid, row) ==
    CASE t = "user_roles" -> uid = row.user_id
      [] t = "profiles" ->
            uid = row.user_id \/ has_role(uid, "healthcare_staff")
      [] t = "chat_sessions" ->
            uid = row.user_id \/ has_role(uid, "healthcare_staff")
      [] t = "patient_intake" ->
            uid = row.user_id \/ has_role(uid, "healthcare_staff")
      [] t = "triage_results" ->
            uid = row.user_id \/ has_role(uid, "healthcare_staff")
      [] t = "alerts" ->
            uid = row.user_id \/ has_role(uid, "healthcare_staff")

\* The FOR INSERT policies (WITH CHECK) of a table.
InsertPolicy(t, uid, row) ==
    CASE t = "user_roles" -> uid = row.user_id
      [] t = "profiles" -> uid = row.user_id
      [] t = "chat_sessions" -> uid = row.user_id
      [] t = "patient_intake" -> uid = row.user_id
      [] t = "triage_results" -> uid = row.user_id
      [] t = "alerts" -> has_role(uid, "healthcare_staff")

\* Mutant of UpdatePolicy: triage_results and alerts with an additional
\* policy USING (auth.uid() = user_id).
UpdatePolicyOwnRows(t, uid, row) ==
    CASE t = "user_roles" -> FALSE
      [] t = "profiles" -> uid = row.user_id
      [] t = "chat_sessions" -> uid = row.user_id
      [] t = "patient_intake" -> FALSE
      [] t = "triage_results" ->
            uid = row.user_id \/ has_role(uid, "healthcare_staff")
      [] t = "alerts" ->
            uid = row.user_id \/ has_role(uid, "healthcare_staff")

\* The FOR UPDATE policies (USING) of a table; a table without one updates
\* no row.
UpdatePolicy(t, uid, row) ==
    CASE t = "user_roles" -> FALSE
      [] t = "profiles" -> uid = row.user_id
      [] t = "chat_sessions" -> uid = row.user_id
      [] t = "patient_intake" -> FALSE
      [] t = "triage_results" -> has_role(uid, "healthcare_staff")
      [] t = "alerts" -> has_role(uid, "healthcare_staff")

\* No table has a FOR DELETE policy: with row-level security enabled, a
\* DELETE then matches no row (and reports no error).
DeletePolicy(t, uid, row) == FALSE

\* The rows a SELECT of table t returns to uid.
Select(t, uid) == {row \in Table(t) : SelectPolicy(t, uid, row)}

\* The rows left in `rows` of table t after uid's
\* DELETE ... WHERE user_id = target.
DeleteWhereUserId(t, rows, uid, target) ==
    {row \in rows : ~(row.user_id = target /\ DeletePolicy(t, uid, row))}

\* ALTER PUBLICATION supabase_realtime ADD TABLE public.triage_results: a
\* change of the table (when `changed`) is sent to the subscribed channel.
Publish(kind, changed) ==
    events' = IF changed /\ channel = "subscribed"
                THEN Append(events, kind) ELSE events

\* DELETE FROM auth.users (service role): every table references
\* auth.users(id) ON DELETE CASCADE.
DeleteAuthUser(id) ==
    /\ id \in authUsers
    /\ authUsers' = authUsers \ {id}
    /\ user_roles' = {r \in user_roles : r.user_id # id}
    /\ profiles' = {r \in profiles : r.user_id # id}
    /\ chat_sessions' = {r \in chat_sessions : r.user_id # id}
    /\ patient_intake' = {r \in patient_intake : r.user_id # id}
    /\ triage_results' = {r \in triage_results : r.user_id # id}
    /\ alerts' = {r \in alerts : r.user_id # id}
    /\ Publish("DELETE", triage_results' # triage_results)
    /\ UNCHANGED <<now, pageVars>>

\* Sign-up: a row is inserted into auth.users and the trigger
\* on_auth_user_created runs handle_new_user() for it.
handle_new_user(id, email, full_name) ==
    profiles' = profiles \cup
        {[user_id |-> id, email |-> email, full_name |-> full_name,
          created_at |-> now, updated_at |-> now]}

SignUp(id, email, full_name) ==
    /\ id \notin authUsers
    /\ authUsers' = authUsers \cup {id}
    /\ handle_new_user(id, email, full_name)
    /\ UNCHANGED <<user_roles, chat_sessions, patient_intake, triage_results,
                   alerts, now>>
    /\ UNCHANGED <<events, pageVars>>

\* INSERT INTO user_roles by uid; UNIQUE (user_id, role), FK to auth.users.
InsertUserRole(uid, row) ==
    /\ uid \in authUsers
    /\ InsertPolicy("user_roles", uid, row)
    /\ row.user_id \in authUsers
    /\ row \notin user_roles
    /\ user_roles' = user_roles \cup {row}
    /\ UNCHANGED <<authUsers, profiles, chat_sessions, patient_intake,
                   triage_results, alerts, now>>
    /\ UNCHANGED <<events, pageVars>>

\* INSERT INTO chat_sessions by uid.
InsertChatSession(uid, user_id, msgs) ==
    /\ uid \in authUsers /\ user_id \in authUsers
    /\ TotalRows < MaxRows
    /\ LET row == [id |-> NewId(chat_sessions), user_id |-> user_id,
                   messages |-> msgs, status |-> "active",
                   created_at |-> now, updated_at |-> now]
       IN /\ InsertPolicy("chat_sessions", uid, row)
          /\ chat_sessions' = chat_sessions \cup {row}
    /\ UNCHANGED <<authUsers, user_roles, profiles, patient_intake,
                   triage_results, alerts, now>>
    /\ UNCHANGED <<events, pageVars>>

\* INSERT INTO patient_intake by uid.
InsertPatientIntake(uid, user_id, selected) ==
    /\ uid \in authUsers /\ user_id \in authUsers
    /\ TotalRows < MaxRows
    /\ LET row == [id |-> NewId(patient_intake), user_id |-> user_id,
                   symptoms |-> selected]
       IN /\ InsertPolicy("patient_intake", uid, row)
          /\ patient_intake' = patient_intake \cup {row}
    /\ UNCHANGED <<authUsers, user_roles, profiles, chat_sessions,
                   triage_results, alerts, now>>
    /\ UNCHANGED <<events, pageVars>>

\* INSERT INTO triage_results by uid; created_at DEFAULT now().
InsertTriageResult(uid, user_id, urgency) ==
    /\ uid \in authUsers /\ user_id \in authUsers
    /\ TotalRows < MaxRows
    /\ LET row == [id |-> NewId(triage_results), user_id |-> user_id,
                   urgency |-> urgency, created_at |-> now]
       IN /\ InsertPolicy("triage_results", uid, row)
          /\ triage_results' = triage_results \cup {row}
    /\ UNCHANGED <<authUsers, user_roles, profiles, chat_sessions,
                   patient_intake, alerts, now>>
    /\ Publish("INSERT", TRUE)
    /\ UNCHANGED pageVars

\* UPDATE triage_results SET urgency = ... WHERE id = ... by uid.
UpdateTriageResult(uid, id, urgency) ==
    /\ uid \in authUsers
    /\ \E r \in triage_results : r.id = id
    /\ triage_results' =
         {IF r.id = id /\ UpdatePolicy("triage_results", uid, r)
            THEN [r EXCEPT !.urgency = urgency] ELSE r : r \in triage_results}
    /\ UNCHANGED <<authUsers, user_roles, profiles, chat_sessions,
                   patient_intake, alerts, now>>
    /\ Publish("UPDATE", triage_results' # triage_results)
    /\ UNCHANGED pageVars

\* INSERT INTO alerts by uid; is_read DEFAULT false.
InsertAlert(uid, user_id) ==
    /\ uid \in authUsers /\ user_id \in authUsers
    /\ TotalRows < MaxRows
    /\ LET row == [id |-> NewId(alerts), user_id |-> user_id,
                   is_read |-> FALSE]
       IN /\ InsertPolicy("alerts", uid, row)
          /\ alerts' = alerts \cup {row}
    /\ UNCHANGED <<authUsers, user_roles, profiles, chat_sessions,
                   patient_intake, triage_results, now>>
    /\ UNCHANGED <<events, pageVars>>

\* UPDATE alerts SET is_read = true WHERE id = ... by uid.
UpdateAlert(uid, id) ==
    /\ uid \in authUsers
    /\ \E r \in alerts : r.id = id
    /\ alerts' =
         {IF r.id = id /\ UpdatePolicy("alerts", uid, r)
            THEN [r EXCEPT !.is_read = TRUE] ELSE r : r \in alerts}
    /\ UNCHANGED <<authUsers, user_roles, profiles, chat_sessions,
                   patient_intake, triage_results, now>>
    /\ UNCHANGED <<events, pageVars>>

\* The database clock advances.
Tick ==
    /\ now < MaxTime
    /\ now' = now + 1
    /\ UNCHANGED <<authUsers, user_roles, profiles, chat_sessions,
                   patient_intake, triage_results, alerts, events, pageVars>>

\* The SET clauses an UPDATE statement may carry for the timestamp columns:
\* values for none, one or both of them.
TimestampClauses ==
    UNION {[c -> 0..MaxTime] : c \in SUBSET {"created_at", "updated_at"}}

SetColumns(row, set) ==
    [c \in DOMAIN row |-> IF c \in DOMAIN set THEN set[c] ELSE row[c]]

\* Mutant of update_updated_at_column: the new row is returned as the
\* statement built it.
update_updated_at_columnNotSet(new) == new

\* public.update_updated_at_column(), `new` being the row NEW:
\* NEW.updated_at = now(); RETURN NEW;
update_updated_at_column(new) == [new EXCEPT !.updated_at = now]

\* UPDATE profiles SET full_name = ..., <set> WHERE user_id = target, by
\* uid; the trigger update_profiles_updated_at runs BEFORE UPDATE for each
\* row.
UpdateProfile(uid, target, full_name, set) ==
    /\ uid \in authUsers
    /\ profiles' =
         {IF r.user_id = target /\ UpdatePolicy("profiles", uid, r)
            THEN update_updated_at_column(
                     SetColumns([r EXCEPT !.full_name = full_name], set))
            ELSE r : r \in profiles}
    /\ UNCHANGED <<authUsers, user_roles, chat_sessions, patient_intake,
                   triage_results, alerts, now>>
    /\ UNCHANGED <<events, pageVars>>

\* UPDATE chat_sessions SET status = ..., <set> WHERE id = ..., by uid; the
\* trigger update_chat_sessions_updated_at runs BEFORE UPDATE for each row.
UpdateChatSession(uid, id, status, set) ==
    /\ uid \in authUsers
    /\ chat_sessions' =
         {IF r.id = id /\ UpdatePolicy("chat_sessions", uid, r)
            THEN update_updated_at_column(
                     SetColumns([r EXCEPT !.status = status], set))
            ELSE r : r \in chat_sessions}
    /\ UNCHANGED <<authUsers, user_roles, profiles, patient_intake,
                   triage_results, alerts, now>>
    /\ UNCHANGED <<events, pageVars>>

\* -------------------------------------------------------- PriorityQueue page
\* const urgencyOrder = { high: 0, medium: 1, low: 2 }
urgencyOrder(urgency) ==
    CASE urgency = "high" -> 0
      [] urgency = "medium" -> 1
      [] urgency = "low" -> 2

\* new Date(created_at).getTime(): created_at is a timestamptz, counted here
\* in clock ticks finer than the millisecond a Date keeps.
getTime(created_at) == created_at \div TicksPerMs

\* Mutant of compare: the timestamps subtracted the other way round.
compareOldestFirst(a, b) ==
    LET urgencyDiff == urgencyOrder(a.urgency) - urgencyOrder(b.urgency)
    IN IF urgencyDiff # 0 THEN urgencyDiff
       ELSE getTime(a.created_at) - getTime(b.created_at)

\* The comparator fetchQueue passes to sort.
compare(a, b) ==
    LET urgencyDiff == urgencyOrder(a.urgency) - urgencyOrder(b.urgency)
    IN IF urgencyDiff # 0 THEN urgencyDiff
       ELSE getTime(b.created_at) - getTime(a.created_at)

Front(s) == SubSeq(s, 1, Len(s) - 1)
Last(s) == s[Len(s)]

\* Array.prototype.sort, a stable sort: x goes behind every element that
\* does not compare greater than it.
RECURSIVE SortedInsert(_, _)
SortedInsert(s, x) ==
    IF s = <<>> THEN <<x>>
    ELSE IF compare(Last(s), x) <= 0 THEN Append(s, x)
    ELSE Append(SortedInsert(Front(s), x), Last(s))

RECURSIVE sort(_)
sort(s) == IF s = <<>> THEN <<>> ELSE SortedInsert(sort(Front(s)), Last(s))

\* The arrays holding each row of `rows` once.
Arrays(rows) ==
    {a \in [1..Cardinality(rows) -> rows] :
        \A i, j \in 1..Cardinality(rows) : i # j => a[i] # a[j]}

\* Mutant of OrderByCreatedAtDesc: the query without its .order(...).
Unordered(rows) == Arrays(rows)

\* .order('created_at', { ascending: false }): the rows newest first, rows
\* of one created_at in any order.
OrderByCreatedAtDesc(rows) ==
    {a \in Arrays(rows) :
        \A i, j \in 1..Len(a) : i < j => a[i].created_at >= a[j].created_at}

\* fetchQueue up to its await.
fetchQueue ==
    /\ queueIsLoading' = TRUE
    /\ inflight' = inflight + 1

\* useEffect on mount: the first fetchQueue and the subscription.
Mount ==
    /\ ~mounted /\ channel = "none"
    /\ mounted' = TRUE
    /\ fetchQueue
    /\ channel' = "subscribed"
    /\ UNCHANGED <<dbVars, events, user, notQueue, queue, fetchError>>

\* Mutant of removeChannel: a cleanup that leaves the channel subscribed.
keepChannel == UNCHANGED <<channel, events>>

\* The cleanup of the effect: supabase.removeChannel(channel).
removeChannel ==
    /\ channel' = "removed"
    /\ events' = <<>>

Unmount ==
    /\ mounted
    /\ mounted' = FALSE
    /\ removeChannel
    /\ UNCHANGED <<dbVars, user, notQueue, queue, queueIsLoading,
                   inflight, fetchError>>

\* The Refresh button (disabled while isLoading).
Refresh ==
    /\ mounted /\ ~queueIsLoading
    /\ fetchQueue
    /\ UNCHANGED <<dbVars, events, user, channel, notQueue, mounted,
                   queue, fetchError>>

\* Mutant of EventFilter: { event: 'INSERT', ... }.
EventFilterInsertOnly(kind) == kind = "INSERT"

\* { event: '*', schema: 'public', table: 'triage_results' }
EventFilter(kind) == TRUE

\* The channel hands the client its next change event; the callback of
\* .on('postgres_changes', ...) calls fetchQueue.
OnPostgresChanges ==
    /\ channel = "subscribed" /\ events # <<>>
    /\ events' = Tail(events)
    /\ IF EventFilter(Head(events))
         THEN fetchQueue
         ELSE UNCHANGED <<queueIsLoading, inflight>>
    /\ UNCHANGED <<dbVars, user, channel, notQueue, mounted, queue,
                   fetchError>>

\* fetchQueue after its await: the query ran under the policies and returned
\* `rows` (or an error); state updates of an unmounted component are dropped.
fetchQueueResolved(ok, rows) ==
    /\ inflight > 0
    /\ inflight' = inflight - 1
    /\ fetchError' = ~ok
    /\ IF ~mounted
         THEN UNCHANGED <<queue, queueIsLoading>>
         ELSE /\ queueIsLoading' = FALSE
              /\ IF ok THEN queue' = sort(rows) ELSE UNCHANGED queue
    /\ UNCHANGED <<dbVars, events, user, channel, notQueue, mounted>>

\* -------------------------------------------------------- ChatbotTriage page
\* A text is a sequence of fragments: what the user types is one character
\* per fragment, a fixed message of the program is one fragment.
UpperCaseLetters ==
    <<"A", "B", "C", "D", "E", "F", "G", "H", "I", "J", "K", "L", "M", "N", "O", "P", "Q", "R", "S", "T", "U", "V", "W", "X", "Y", "Z">>
LowerCaseLetters ==
    <<"a", "b", "c", "d", "e", "f", "g", "h", "i", "j", "k", "l", "m", "n", "o", "p", "q", "r", "s", "t", "u", "v", "w", "x", "y", "z">>

\* const EMERGENCY_KEYWORDS = [...]
EMERGENCY_KEYWORDS ==
    << <<"c", "h", "e", "s", "t", " ", "p", "a", "i", "n">>,
       <<"c", "a", "n", "'", "t", " ", "b", "r", "e", "a", "t", "h", "e">>,
       <<"d", "i", "f", "f", "i", "c", "u", "l", "t", "y", " ", "b", "r", "e", "a", "t", "h", "i", "n", "g">>,
       <<"s", "e", "v", "e", "r", "e", " ", "b", "l", "e", "e", "d", "i", "n", "g">>,
       <<"u", "n", "c", "o", "n", "s", "c", "i", "o", "u", "s">>,
       <<"s", "t", "r", "o", "k", "e">>,
       <<"h", "e", "a", "r", "t", " ", "a", "t", "t", "a", "c", "k">>,
       <<"s", "e", "i", "z", "u", "r", "e">>,
       <<"o", "v", "e", "r", "d", "o", "s", "e">>,
       <<"s", "u", "i", "c", "i", "d", "a", "l">>,
       <<"s", "u", "i", "c", "i", "d", "e">>,
       <<"s", "e", "v", "e", "r", "e", " ", "p", "a", "i", "n">>,
       <<"n", "u", "m", "b", "n", "e", "s", "s">>,
       <<"p", "a", "r", "a", "l", "y", "s", "i", "s">> >>

\* String.prototype.toLowerCase, character by character.
toLowerCaseChar(c) ==
    IF \E i \in 1..Len(UpperCaseLetters) : UpperCaseLetters[i] = c
      THEN LowerCaseLetters[CHOOSE i \in 1..Len(UpperCaseLetters) :
                              UpperCaseLetters[i] = c]
      ELSE c

toLowerCase(text) == [i \in 1..Len(text) |-> toLowerCaseChar(text[i])]

\* String.prototype.includes: the first position onwards is tried in turn.
RECURSIVE includesFrom(_, _, _)
includesFrom(text, keyword, i) ==
    IF i + Len(keyword) - 1 > Len(text) THEN FALSE
    ELSE IF SubSeq(text, i, i + Len(keyword) - 1) = keyword THEN TRUE
    ELSE includesFrom(text, keyword, i + 1)

includes(text, keyword) == includesFrom(text, keyword, 1)

\* Array.prototype.some over EMERGENCY_KEYWORDS.
RECURSIVE some(_, _, _)
some(keywords, lowerText, k) ==
    IF k > Len(keywords) THEN FALSE
    ELSE IF includes(lowerText, keywords[k]) THEN TRUE
    ELSE some(keywords, lowerText, k + 1)

\* Mutant of checkForEmergency: the text is not lower-cased first.
checkForEmergencyCaseSensitive(text) == some(EMERGENCY_KEYWORDS, text, 1)

checkForEmergency(text) ==
    LET lowerText == toLowerCase(text)
    IN some(EMERGENCY_KEYWORDS, lowerText, 1)

WhiteSpace == {" ", "\t", "\n"}

\* String.prototype.trim
RECURSIVE trimStart(_)
trimStart(text) ==
    IF text # <<>> /\ Head(text) \in WhiteSpace
      THEN trimStart(Tail(text)) ELSE text
RECURSIVE trimEnd(_)
trimEnd(text) ==
    IF text # <<>> /\ text[Len(text)] \in WhiteSpace
      THEN trimEnd(SubSeq(text, 1, Len(text) - 1)) ELSE text
trim(text) == trimEnd(trimStart(text))

\* The emergency reply of generateBotResponse (its emoji and ** marks left out).
EmergencyResponse ==
    <<"IMPORTANT: Based on what you've described, you may need immediate medical attention. Please call 911 or go to your nearest emergency room immediately. If you're unsure, err on the side of caution and seek emergency care now.">>

\* const responses = [...]
responses ==
    << <<"Thank you for sharing that. Can you tell me how long you've been experiencing these symptoms?">>,
       <<"I understand. On a scale of 1-10, how would you rate your discomfort level?">>,
       <<"That's helpful information. Have you taken any medications or treatments for this?">>,
       <<"Do you have any pre-existing conditions or allergies I should be aware of?">>,
       <<"Based on what you've described, I recommend scheduling an appointment with your primary care provider within the next 24-48 hours. In the meantime, rest and stay hydrated.">> >>

INITIAL_MESSAGE ==
    [role |-> "assistant",
     content |-> <<"Hello! I'm your virtual triage assistant. I'm here to help assess your symptoms and guide you to the appropriate level of care. Please describe what symptoms you're experiencing today.">>,
     isEmergency |-> FALSE]

Min(a, b) == IF a < b THEN a ELSE b

\* messages.filter(m => m.role === 'user').length
UserMessageCount(msgs) ==
    Cardinality({i \in 1..Len(msgs) : msgs[i].role = "user"})

\* Mutant of generateBotResponse: the user messages counted in the list that
\* already holds the message being answered.
generateBotResponseCountingItself(userMessage, msgs) ==
    IF checkForEmergency(userMessage) THEN EmergencyResponse
    ELSE responses[Min(UserMessageCount(msgs) + 1, Len(responses) - 1) + 1]

\* Mutant of generateBotResponse: the emergency reply only for a first
\* message.
generateBotResponseEmergencyFirstOnly(userMessage, msgs) ==
    IF checkForEmergency(userMessage) /\ UserMessageCount(msgs) = 0
      THEN EmergencyResponse
    ELSE LET messageCount == UserMessageCount(msgs)
         IN responses[Min(messageCount, Len(responses) - 1) + 1]

\* generateBotResponse(userMessage), `msgs` being the `messages` its closure
\* holds; responses[...] is indexed from 0 in the source, from 1 here.
generateBotResponse(userMessage, msgs) ==
    IF checkForEmergency(userMessage) THEN EmergencyResponse
    ELSE LET messageCount == UserMessageCount(msgs)
         IN responses[Min(messageCount, Len(responses) - 1) + 1]

\* onChange of the input (disabled while isLoading).
SetInput(text) ==
    /\ ~chatIsLoading
    /\ input' = text
    /\ UNCHANGED <<dbVars, events, notChat, messages, chatIsLoading,
                   showEmergencyBanner, timer>>

\* Mutant of chatHandleSubmit: the input is not trimmed before it is tested.
chatHandleSubmitBlankAccepted ==
    IF input = <<>> \/ chatIsLoading
      THEN UNCHANGED vars
      ELSE LET userMessage == [role |-> "user", content |-> trim(input),
                               isEmergency |-> FALSE]
               isEmergency == checkForEmergency(input)
           IN /\ showEmergencyBanner' =
                    IF isEmergency THEN TRUE ELSE showEmergencyBanner
              /\ messages' = Append(messages, userMessage)
              /\ input' = <<>>
              /\ chatIsLoading' = TRUE
              /\ timer' = <<[messages |-> messages, input |-> input,
                             userMessage |-> userMessage,
                             isEmergency |-> isEmergency]>>
              /\ UNCHANGED <<dbVars, events, notChat>>

\* ChatbotTriage.handleSubmit up to setTimeout; the timer's closure keeps
\* the `messages` of this render, the user message and isEmergency.
chatHandleSubmit ==
    IF trim(input) = <<>> \/ chatIsLoading
      THEN UNCHANGED vars
      ELSE LET userMessage == [role |-> "user", content |-> trim(input),
                               isEmergency |-> FALSE]
               isEmergency == checkForEmergency(input)
           IN /\ showEmergencyBanner' =
                    IF isEmergency THEN TRUE ELSE showEmergencyBanner
              /\ messages' = Append(messages, userMessage)
              /\ input' = <<>>
              /\ chatIsLoading' = TRUE
              /\ timer' = <<[messages |-> messages, input |-> input,
                             userMessage |-> userMessage,
                             isEmergency |-> isEmergency]>>
              /\ UNCHANGED <<dbVars, events, notChat>>

\* The row .upsert({user_id, messages, status}) writes: no id is given, so
\* it is an INSERT of a new row.
UpsertChatSession(uid, msgs) ==
    LET row == [id |-> NewId(chat_sessions), user_id |-> uid,
                messages |-> msgs, status |-> "active",
                created_at |-> now, updated_at |-> now]
    IN IF InsertPolicy("chat_sessions", uid, row)
         THEN chat_sessions \cup {row} ELSE chat_sessions

\* Mutant of allMessagesOf: the user message being answered is left out.
allMessagesWithoutUserMessage(msgs, userMessage, botResponse) ==
    LET all == msgs \o <<botResponse>>
    IN [i \in 1..Len(all) |->
          [role |-> all[i].role, content |-> all[i].content]]

\* const allMessages = [...messages, userMessage, botResponse].map(m =>
\* ({ role: m.role, content: m.content, ... })), `msgs` being the `messages`
\* of the closure.
allMessagesOf(msgs, userMessage, botResponse) ==
    LET all == msgs \o <<userMessage, botResponse>>
    IN [i \in 1..Len(all) |->
          [role |-> all[i].role, content |-> all[i].content]]

\* The setTimeout callback: the bot response is appended and, with a user
\* signed in, the conversation is saved (`saved`: the request succeeded; its
\* error is only logged).
BotResponds(saved) ==
    /\ timer # <<>>
    /\ LET botResponse ==
             [role |-> "assistant",
              content |-> generateBotResponse(timer[1].userMessage.content,
                                              timer[1].messages),
              isEmergency |-> timer[1].isEmergency]
           allMessages ==
             allMessagesOf(timer[1].messages, timer[1].userMessage,
                           botResponse)
       IN /\ messages' = Append(messages, botResponse)
          /\ chatIsLoading' = FALSE
          /\ chat_sessions' =
               IF user # NoUser /\ saved
                 THEN UpsertChatSession(user, allMessages)
                 ELSE chat_sessions
    /\ timer' = <<>>
    /\ UNCHANGED <<authUsers, user_roles, profiles, patient_intake,
                   triage_results, alerts, now, events, notChat, input,
                   showEmergencyBanner>>

\* -------------------------------------------------------- PatientIntake page
\* const COMMON_SYMPTOMS = [...]
COMMON_SYMPTOMS ==
    {"Headache", "Fever", "Cough", "Fatigue", "Nausea", "Dizziness",
     "Body aches", "Sore throat", "Shortness of breath", "Chest pain"}

\* handleSymptomToggle(symptom); the form is edited between submissions, the
\* handler in flight works on the formData of the render it was started in.
handleSymptomToggle(symptom) ==
    /\ intakePc = "idle" /\ ~isSubmitted
    /\ symptoms' = IF symptom \in symptoms
                     THEN symptoms \ {symptom}
                     ELSE symptoms \cup {symptom}
    /\ UNCHANGED <<dbVars, events, notIntake, intakeIsLoading, isSubmitted,
                   intakeToast, redirectScheduled, intakePc>>

\* Mutant of MockUrgency: 'medium' from three symptoms on.
MockUrgencyFromThree(selected) ==
    IF \E s \in selected : s \in {"Chest pain", "Shortness of breath"}
      THEN "high"
    ELSE IF Cardinality(selected) >= 3 THEN "medium" ELSE "low"

\* The urgency and the recommended action of the mock triage result.
MockUrgency(selected) ==
    IF \E s \in selected : s \in {"Chest pain", "Shortness of breath"}
      THEN "high"
    ELSE IF Cardinality(selected) > 3 THEN "medium" ELSE "low"

MockRecommendedAction(selected) ==
    IF \E s \in selected : s \in {"Chest pain", "Shortness of breath"}
      THEN "Seek immediate medical attention or call emergency services."
    ELSE IF Cardinality(selected) > 3
      THEN "Schedule an appointment with your healthcare provider within 24-48 hours."
    ELSE "Monitor symptoms and rest. Seek care if symptoms worsen."

\* PatientIntake.handleSubmit up to its first await (the submit button is
\* disabled while isLoading).
intakeHandleSubmit ==
    /\ intakePc = "idle" /\ ~isSubmitted /\ ~intakeIsLoading
    /\ IF user = NoUser
         THEN UNCHANGED <<intakeIsLoading, intakePc>>
         ELSE intakeIsLoading' = TRUE /\ intakePc' = "patient_intake"
    /\ UNCHANGED <<dbVars, events, notIntake, symptoms, isSubmitted,
                   intakeToast, redirectScheduled>>

\* Mutant of IntakeErrorThrown: the error is not thrown and the handler goes
\* on to the triage_results insert.
IntakeErrorIgnored ==
    /\ intakePc' = "triage_results"
    /\ UNCHANGED <<intakeIsLoading, intakeToast>>

\* if (error) throw error; then catch and finally.
IntakeErrorThrown ==
    /\ intakeToast' = "Failed to submit intake"
    /\ intakeIsLoading' = FALSE
    /\ intakePc' = "idle"

\* The patient_intake insert answers: stored, or {error}.
patientIntakeInserted(ok) ==
    /\ intakePc = "patient_intake"
    /\ LET row == [id |-> NewId(patient_intake), user_id |-> user,
                   symptoms |-> symptoms]
           error == ~(ok /\ InsertPolicy("patient_intake", user, row))
       IN IF error
            THEN /\ IntakeErrorThrown
                 /\ UNCHANGED patient_intake
            ELSE /\ patient_intake' = patient_intake \cup {row}
                 /\ intakePc' = "triage_results"
                 /\ UNCHANGED <<intakeIsLoading, intakeToast>>
    /\ UNCHANGED <<authUsers, user_roles, profiles, chat_sessions,
                   triage_results, alerts, now, events, notIntake, symptoms,
                   isSubmitted, redirectScheduled>>

\* What handleSubmit does after `await supabase.from('triage_results')
\* .insert(...)`: the result is not read.
AfterTriageInsert(error) ==
    /\ isSubmitted' = TRUE
    /\ intakeToast' = "Intake submitted successfully"
    /\ redirectScheduled' = TRUE
    /\ intakeIsLoading' = FALSE
    /\ intakePc' = "idle"

\* The triage_results insert answers: stored, or {error}.
triageResultInserted(ok) ==
    /\ intakePc = "triage_results"
    /\ LET row == [id |-> NewId(triage_results), user_id |-> user,
                   urgency |-> MockUrgency(symptoms),
                   recommended_action |-> MockRecommendedAction(symptoms),
                   created_at |-> now]
           error == ~(ok /\ InsertPolicy("triage_results", user, row))
       IN /\ triage_results' =
               IF error THEN triage_results ELSE triage_results \cup {row}
          /\ Publish("INSERT", ~error)
          /\ AfterTriageInsert(error)
    /\ UNCHANGED <<authUsers, user_roles, profiles, chat_sessions,
                   patient_intake, alerts, now, notIntake, symptoms>>

\* setTimeout(() => navigate('/results'), 2000)
Redirect ==
    /\ redirectScheduled
    /\ redirectScheduled' = FALSE
    /\ intakePc' = "left"
    /\ UNCHANGED <<dbVars, events, notIntake, symptoms, intakeIsLoading,
                   isSubmitted, intakeToast>>

\* --------------------------------------------------- WorkloadAnalytics page
\* const days = ['Sun', 'Mon', 'Tue', 'Wed', 'Thu', 'Fri', 'Sat']
days == <<"Sun", "Mon", "Tue", "Wed", "Thu", "Fri", "Sat">>

\* The calendar day of a timestamp, counted from the day of tick 0.
DateOf(t) == t \div TicksPerDay

\* Date.prototype.getDay() of a calendar day: 0 for Sunday to 6 for
\* Saturday; day 0 is 1 January 1970, a Thursday.
getDay(date) == (date + 4) % 7

\* allResults.forEach(result => { ... dailyStats[dayName]++ ... }): `stats`
\* holds the entries of dailyStats in insertion order.
RECURSIVE dailyStatsOf(_, _, _)
dailyStatsOf(stats, results, today) ==
    IF results = <<>> THEN stats
    ELSE LET date == DateOf(Head(results).created_at)
             dayName == days[getDay(date) + 1]
         IN dailyStatsOf(
                [i \in 1..Len(stats) |->
                    IF stats[i].day = dayName
                      THEN [stats[i] EXCEPT !.patients = @ + 1]
                      ELSE stats[i]],
                Tail(results), today)

\* for (let i = 6; i >= 0; i--) { ... dailyStats[dayName] = 0 }
emptyDailyStats(today) ==
    [k \in 1..7 |-> [day |-> days[getDay(today - (7 - k)) + 1],
                     patients |-> 0]]

\* fetchAnalytics, run once by the effect of the mount, when its query has
\* answered: with allResults (`ok`; the visible rows newest first, `results`
\* one such order) the daily breakdown is set, with null nothing is.
fetchAnalytics(ok, results) ==
    /\ analyticsIsLoading
    /\ dailyData' =
         IF ok THEN dailyStatsOf(emptyDailyStats(DateOf(now)), results,
                                 DateOf(now))
         ELSE dailyData
    /\ analyticsIsLoading' = FALSE
    /\ UNCHANGED <<dbVars, events, notAnalytics>>

\* ------------------------------------------------------------ Settings page
\* Settings.handleDeleteData up to its await: no user, or the confirm dialog
\* declined, returns at once; otherwise isLoading is set and the four
\* DELETE requests are sent.
handleDeleteData(confirmed) ==
    /\ ~settingsIsLoading
    /\ IF user = NoUser \/ ~confirmed
         THEN UNCHANGED settingsIsLoading
         ELSE settingsIsLoading' = TRUE
    /\ UNCHANGED <<dbVars, events, user, channel, settingsToast, notSettings>>

\* The four DELETE ... WHERE user_id = user.id run under the policies, the
\* Promise.all resolves (the client resolves with {error} and never rejects,
\* and the handler reads no error), the toast is shown, isLoading is reset.
handleDeleteDataResolved ==
    /\ settingsIsLoading
    /\ chat_sessions' =
         DeleteWhereUserId("chat_sessions", chat_sessions, user, user)
    /\ patient_intake' =
         DeleteWhereUserId("patient_intake", patient_intake, user, user)
    /\ triage_results' =
         DeleteWhereUserId("triage_results", triage_results, user, user)
    /\ alerts' = DeleteWhereUserId("alerts", alerts, user, user)
    /\ settingsToast' = "Data deleted"
    /\ settingsIsLoading' = FALSE
    /\ UNCHANGED <<authUsers, user_roles, profiles, now, events, user,
                   channel, notSettings>>

\* ----------------------------------------------------------- specifications
Email(u) == <<u, "@example.org">>

InitDb ==
    /\ authUsers = {}
    /\ user_roles = {}
    /\ profiles = {}
    /\ chat_sessions = {}
    /\ patient_intake = {}
    /\ triage_results = {}
    /\ alerts = {}
    /\ now = 0

\* A database where u1 has signed up as a patient and u2 as healthcare staff.
InitAccounts ==
    /\ authUsers = Users
    /\ user_roles = {[user_id |-> "u1", role |-> "patient"],
                     [user_id |-> "u2", role |-> "healthcare_staff"]}
    /\ profiles = {[user_id |-> u, email |-> Email(u), full_name |-> Null,
                     created_at |-> 0, updated_at |-> 0] : u \in Users}

InitSignedUp ==
    /\ InitAccounts
    /\ chat_sessions = {}
    /\ patient_intake = {}
    /\ triage_results = {}
    /\ alerts = {}
    /\ now = 0

InitRealtime ==
    /\ channel = "none"
    /\ events = <<>>

InitSettings ==
    /\ settingsIsLoading = FALSE
    /\ settingsToast = "none"

InitPriorityQueue ==
    /\ mounted = FALSE
    /\ queue = <<>>
    /\ queueIsLoading = TRUE
    /\ inflight = 0
    /\ fetchError = FALSE

InitChatbot ==
    /\ messages = <<INITIAL_MESSAGE>>
    /\ input = <<>>
    /\ chatIsLoading = FALSE
    /\ showEmergencyBanner = FALSE
    /\ timer = <<>>

InitIntake ==
    /\ symptoms = {}
    /\ intakeIsLoading = FALSE
    /\ isSubmitted = FALSE
    /\ intakeToast = "none"
    /\ redirectScheduled = FALSE
    /\ intakePc = "idle"

InitAnalytics ==
    /\ dailyData = <<>>
    /\ analyticsIsLoading = TRUE

InitPages ==
    /\ InitRealtime
    /\ InitSettings
    /\ InitPriorityQueue
    /\ InitChatbot
    /\ InitIntake
    /\ InitAnalytics

Init ==
    /\ InitDb
    /\ user = NoUser
    /\ InitPages

Next ==
    \/ \E u \in Users, n \in {Null, "Ann"} : SignUp(u, Email(u), n)
    \/ \E uid \in Users, u \in Users, r \in app_role :
          InsertUserRole(uid, [user_id |-> u, role |-> r])
    \/ \E uid \in Users, u \in Users : InsertChatSession(uid, u, <<>>)
    \/ \E uid \in Users, u \in Users : InsertPatientIntake(uid, u, {})
    \/ \E uid \in Users, u \in Users, g \in {"low", "high"} :
          InsertTriageResult(uid, u, g)
    \/ \E uid \in Users, i \in 1..MaxRows, g \in {"low", "high"} :
          UpdateTriageResult(uid, i, g)
    \/ \E uid \in Users, u \in Users : InsertAlert(uid, u)
    \/ \E uid \in Users, i \in 1..MaxRows : UpdateAlert(uid, i)

Spec == Init /\ [][Next]_vars

InitSettingsPage ==
    /\ InitSignedUp
    /\ user \in Users \cup {NoUser}
    /\ InitPages

NextSettings ==
    \/ \E uid \in Users : InsertChatSession(uid, uid, <<>>)
    \/ \E uid \in Users : InsertPatientIntake(uid, uid, {})
    \/ \E uid \in Users : InsertTriageResult(uid, uid, "low")
    \/ \E uid \in Users, u \in Users : InsertAlert(uid, u)
    \/ \E confirmed \in BOOLEAN : handleDeleteData(confirmed)
    \/ handleDeleteDataResolved

SpecSettings == InitSettingsPage /\ [][NextSettings]_vars

\* The tables InsertTriageResult and UpdateTriageResult leave behind while
\* the clock runs from 0 to MaxTime: at most MaxQueueRows rows of any
\* urgency, a later row created no earlier than the rows before it.
TriageResultTables ==
    UNION {
      {{[id |-> i, user_id |-> "u1", urgency |-> g[i], created_at |-> t[i]] :
           i \in 1..n} :
         g \in [1..n -> urgency_level],
         t \in {f \in [1..n -> 0..MaxTime] :
                  \A i, j \in 1..n : i < j => f[i] <= f[j]}} :
      n \in 0..MaxQueueRows}

InitQueuePage ==
    /\ InitAccounts
    /\ chat_sessions = {}
    /\ patient_intake = {}
    /\ alerts = {}
    /\ now = MaxTime
    /\ triage_results \in TriageResultTables
    /\ user = "u2"
    /\ InitPages

NextQueue ==
    \/ Mount
    \/ Refresh
    \/ \E ok \in BOOLEAN :
          \E rows \in OrderByCreatedAtDesc(Select("triage_results", user)) :
             fetchQueueResolved(ok, rows)
    \/ Unmount

SpecQueue == InitQueuePage /\ [][NextQueue]_vars

\* The queue page while the table changes under it.
InitRealtimePage ==
    /\ InitSignedUp
    /\ user = "u2"
    /\ InitPages

\* Changes wait while MaxPending events and fetches are outstanding.
CanChange == Len(events) + inflight < MaxPending

NextRealtime ==
    \/ Mount
    \/ Refresh
    \/ OnPostgresChanges
    \/ \E ok \in BOOLEAN :
          \E rows \in OrderByCreatedAtDesc(Select("triage_results", user)) :
             fetchQueueResolved(ok, rows)
    \/ Unmount
    \/ CanChange /\ InsertTriageResult("u1", "u1", "low")
    \/ \E uid \in Users, i \in 1..MaxRows :
          CanChange /\ UpdateTriageResult(uid, i, "high")
    \/ \E id \in Users \ {user} : CanChange /\ DeleteAuthUser(id)

SpecRealtime == InitRealtimePage /\ [][NextRealtime]_vars

\* What the patient types into the chatbot: nothing but blanks, a symptom
\* that is no emergency, an emergency keyword in capitals between blanks.
Texts ==
    { <<" ", " ">>,
      <<"m", "i", "l", "d", " ", "c", "o", "u", "g", "h">>,
      <<" ", "C", "h", "e", "s", "t", " ", "P", "A", "I", "N", " ">> }

InitChatPage ==
    /\ InitSignedUp
    /\ user \in {"u1", NoUser}
    /\ InitPages

NextChat ==
    \/ \E text \in Texts :
          UserMessageCount(messages) < MaxUserMessages /\ SetInput(text)
    \/ chatHandleSubmit
    \/ \E saved \in BOOLEAN : BotResponds(saved)

SpecChat == InitChatPage /\ [][NextChat]_vars

\* Pieces of typed text: keywords whole, in halves and in capitals.
Fragments ==
    { <<"c", "h", "e", "s", "t">>, <<" ">>, <<"p", "a", "i", "n">>,
      <<"C", "h", "e", "s", "t", " ", "P", "a", "i", "n">>,
      <<"N", "u", "m", "b">>, <<"n", "e", "s", "s">> }

RECURSIVE TextsOfFragments(_)
TextsOfFragments(n) ==
    IF n = 0 THEN {<<>>}
    ELSE LET shorter == TextsOfFragments(n - 1)
         IN shorter \cup {t \o f : t \in shorter, f \in Fragments}

BoundedTexts == TextsOfFragments(MaxFragments)

\* A conversation of two messages: the first any bounded text, typed once,
\* the second one of Texts.
NextEmergency ==
    \/ \E text \in BoundedTexts :
          /\ UserMessageCount(messages) = 0 /\ input = <<>>
          /\ SetInput(text)
    \/ \E text \in Texts :
          UserMessageCount(messages) = 1 /\ SetInput(text)
    \/ chatHandleSubmit
    \/ \E saved \in BOOLEAN : BotResponds(saved)

SpecEmergency == InitChatPage /\ [][NextEmergency]_vars

InitIntakePage ==
    /\ InitSignedUp
    /\ user \in {"u1", NoUser}
    /\ InitPages

NextIntake ==
    \/ \E symptom \in COMMON_SYMPTOMS : handleSymptomToggle(symptom)
    \/ intakeHandleSubmit
    \/ \E ok \in BOOLEAN : patientIntakeInserted(ok)
    \/ \E ok \in BOOLEAN : triageResultInserted(ok)
    \/ Redirect

SpecIntake == InitIntakePage /\ [][NextIntake]_vars

\* The profile and one chat session of u1 under sign-up, an insert with the
\* column defaults and the UPDATE statements of either user, while the clock
\* runs.
NextTimestamps ==
    \/ \E u \in Users : SignUp(u, Email(u), Null)
    \/ Tick
    \/ chat_sessions = {} /\ InsertChatSession("u1", "u1", <<>>)
    \/ \E uid \in Users, set \in TimestampClauses :
          UpdateProfile(uid, "u1", "Ann", set)
    \/ \E uid \in Users, set \in TimestampClauses :
          UpdateChatSession(uid, 1, "completed", set)

SpecTimestamps == Init /\ [][NextTimestamps]_vars

\* The tables InsertTriageResult leaves behind while the clock runs from 0
\* to the end of day MaxDays: at most MaxAnalyticsRows rows, a later row
\* created no earlier than the rows before it.
AnalyticsTables ==
    UNION {
      {{[id |-> i, user_id |-> "u1", urgency |-> "low", created_at |-> t[i]] :
           i \in 1..n} :
         t \in {f \in [1..n -> 0..((MaxDays + 1) * TicksPerDay - 1)] :
                  \A i, j \in 1..n : i < j => f[i] <= f[j]}} :
      n \in 0..MaxAnalyticsRows}

\* The analytics page opened by the staff user u2.
InitAnalyticsPage ==
    /\ InitAccounts
    /\ chat_sessions = {}
    /\ patient_intake = {}
    /\ triage_results \in AnalyticsTables
    /\ alerts = {}
    /\ now = (MaxDays + 1) * TicksPerDay - 1
    /\ user = "u2"
    /\ InitPages

NextAnalytics ==
    \/ \E ok \in BOOLEAN :
          \E results \in OrderByCreatedAtDesc(Select("triage_results", user)) :
             fetchAnalytics(ok, results)
    \/ Cardinality(triage_results) <= MaxAnalyticsRows
         /\ InsertTriageResult("u1", "u1", "low")

SpecAnalytics == InitAnalyticsPage /\ [][NextAnalytics]_vars

\* The chatbot page with the timer that setTimeout schedules bound to fire:
\* a conversation of up to MaxFairMessages user messages.
NextChatFair ==
    \/ \E text \in Texts :
          UserMessageCount(messages) < MaxFairMessages /\ SetInput(text)
    \/ chatHandleSubmit
    \/ \E saved \in BOOLEAN : BotResponds(saved)

SpecChatFair ==
    /\ InitChatPage
    /\ [][NextChatFair]_vars
    /\ WF_vars(\E saved \in BOOLEAN : BotResponds(saved))

\* ------------------------------------------------------------------ claims
OwnRows(t, u) == {row \in Table(t) : row.user_id = u}

\* C2: a user without the healthcare_staff role SELECTs from each of the six
\* tables exactly the rows whose user_id is their own id, so what they read
\* is a function of their own rows alone.
C2_NonStaffReadOwnRowsOnly ==
    \A u \in Users :
        ~has_role(u, "healthcare_staff") =>
            \A t \in Tables : Select(t, u) = OwnRows(t, u)

\* C2 witness: a non-staff user owns a health-data row while another user
\* owns a row of the same table.
C2_Witness ==
    \E u \in authUsers, t \in HealthTables :
        /\ ~has_role(u, "healthcare_staff")
        /\ OwnRows(t, u) # {}
        /\ OwnRows(t, u) # Table(t)
        /\ \E v \in Users \ {u} : OwnRows("user_roles", v) # {}

\* C10: healthcare staff SELECT every row of profiles, chat_sessions,
\* patient_intake, triage_results and alerts whatever its user_id, but of
\* user_roles only their own rows.
C10_StaffReadAll ==
    \A u \in Users :
        has_role(u, "healthcare_staff") =>
            /\ \A t \in Tables \ {"user_roles"} : Select(t, u) = Table(t)
            /\ Select("user_roles", u) = OwnRows("user_roles", u)

\* C10 witness: a staff user, another user's row in a health-data table and
\* in profiles, and another user's role row.
C10_Witness ==
    \E u \in authUsers, v \in authUsers :
        /\ u # v
        /\ has_role(u, "healthcare_staff")
        /\ \E t \in HealthTables : OwnRows(t, v) # {}
        /\ OwnRows("profiles", v) # {}
        /\ OwnRows("user_roles", v) # {}

\* C6: once a row is inserted into auth.users, that user has exactly one
\* profiles row, with the new user's id, email and full name, and a
\* user_roles row with the default role 'patient'.
C6_SignupCreatesProfileAndRole ==
    [][\A u \in Users :
          (u \notin authUsers /\ u \in authUsers') =>
              /\ Cardinality({p \in profiles' : p.user_id = u}) = 1
              /\ \E r \in user_roles' : r.user_id = u /\ r.role = "patient"]_vars

\* Every high row before every medium row, every medium row before every low
\* row, and rows of one urgency newest first.
UrgencyThenNewestFirst(q) ==
    \A i, j \in 1..Len(q) :
        i < j =>
            /\ q[j].urgency = "high" => q[i].urgency = "high"
            /\ q[j].urgency = "medium" => q[i].urgency \in {"high", "medium"}
            /\ q[i].urgency = q[j].urgency =>
                  q[i].created_at >= q[j].created_at

PermutationOf(q, rows) ==
    /\ Len(q) = Cardinality(rows)
    /\ {q[i] : i \in 1..Len(q)} = rows

\* C1: after every successful fetchQueue the displayed queue is a
\* permutation of the fetched triage_results rows, ordered by urgency (high,
\* medium, low) and, within one urgency, by created_at, newest first.
C1_QueueSortedByUrgencyThenNewest ==
    [][(mounted /\ inflight' = inflight - 1 /\ ~fetchError') =>
          /\ PermutationOf(queue', Select("triage_results", user))
          /\ UrgencyThenNewestFirst(queue')]_vars

\* C1 witness: a fetched queue of three rows or more, with rows of different
\* urgency and two rows of one urgency created within the same millisecond
\* at different times.
C1_Witness ==
    /\ mounted /\ ~fetchError /\ ~queueIsLoading
    /\ Len(queue) >= 3
    /\ \E i, j \in 1..Len(queue) :
          /\ i < j
          /\ queue[i].urgency = queue[j].urgency
          /\ queue[i].created_at > queue[j].created_at
          /\ getTime(queue[i].created_at) = getTime(queue[j].created_at)
          /\ queue[i].id > queue[j].id
    /\ \E i, j \in 1..Len(queue) :
          /\ queue[i].urgency = "high" /\ queue[j].urgency = "low"
          /\ queue[i].created_at < queue[j].created_at

\* C7: while the channel is subscribed, every change event it delivers
\* starts a new fetchQueue; once the component is unmounted the channel is
\* removed, holds no event, and no further fetch is started.
C7_RealtimeEventsStartFetch ==
    [][/\ (channel = "subscribed" /\ channel' = "subscribed"
             /\ events # <<>> /\ events' = Tail(events)) =>
              (inflight' = inflight + 1 /\ queueIsLoading')
       /\ (mounted /\ ~mounted') => (channel' = "removed" /\ events' = <<>>)
       /\ (~mounted /\ channel = "removed") =>
              (channel' = "removed" /\ events' = <<>>
                 /\ inflight' <= inflight)]_vars

\* C7 witness: the component was unmounted with two fetches outstanding, the
\* second of which only a delivered change event can have started, and the
\* table has changed since.
C7_Witness ==
    /\ ~mounted /\ channel = "removed"
    /\ inflight = 2
    /\ \E r \in triage_results : r.urgency = "high"

\* The lower-cased text holds an emergency keyword as a substring.
ContainsKeywordIgnoringCase(text) ==
    \E k \in 1..Len(EMERGENCY_KEYWORDS), i \in 1..Len(text) :
        LET keyword == EMERGENCY_KEYWORDS[k]
        IN /\ i + Len(keyword) - 1 <= Len(text)
           /\ \A j \in 1..Len(keyword) :
                 toLowerCaseChar(text[i + j - 1]) = keyword[j]

\* C4: checkForEmergency(text) is true if and only if the lower-cased text
\* contains an entry of EMERGENCY_KEYWORDS as a substring, whatever the case
\* of the text and whatever the conversation so far.
C4_EmergencyIffKeyword ==
    timer # <<>> =>
        (timer[1].isEmergency <=> ContainsKeywordIgnoringCase(timer[1].input))

\* C4 witness: in a conversation that already has an exchange, a text with
\* capital letters was found to hold an emergency keyword.
C4_Witness ==
    /\ timer # <<>>
    /\ timer[1].isEmergency
    /\ timer[1].input # toLowerCase(timer[1].input)
    /\ UserMessageCount(timer[1].messages) = 1
    /\ ~timer[1].messages[3].isEmergency

\* C5: the reply to a non-emergency user message is responses[min(k, 4)],
\* k being the number of user messages before it (emergency ones included).
C5_ReplyIndexIsEarlierUserMessages ==
    \A i \in 2..Len(messages) :
        (/\ messages[i].role = "assistant"
         /\ messages[i - 1].role = "user"
         /\ ~ContainsKeywordIgnoringCase(messages[i - 1].content)) =>
            LET k == UserMessageCount(SubSeq(messages, 1, i - 2))
            IN messages[i].content = responses[Min(k, 4) + 1]

\* C5 witness: six user messages answered, an emergency among the first
\* five, the fifth and the sixth answered with the final recommendation.
C5_Witness ==
    /\ Len(messages) = 13
    /\ \E i \in 2..9 : messages[i].role = "assistant" /\ messages[i].isEmergency
    /\ messages[11].content = responses[5]
    /\ messages[13].content = responses[5]
    /\ messages[3].content = responses[1]

\* What the Triage Results page of user u lists.
TriageResultsOf(u) ==
    {r \in Select("triage_results", u) : r.user_id = u}

\* C8: once a signed-in patient has been given the chatbot's final
\* recommendation or its emergency reply, a triage_results row exists for
\* that patient (the Triage Results page no longer shows 'No Results Yet').
C8_ChatYieldsTriageResult ==
    (/\ user # NoUser
     /\ messages[Len(messages)].role = "assistant"
     /\ messages[Len(messages)].content \in {responses[5], EmergencyResponse}) =>
        TriageResultsOf(user) # {}

\* C9: the intake is reported as submitted only if the patient_intake row
\* and the triage_results row of the submission are both stored.
C9_SubmittedOnlyIfBothStored ==
    isSubmitted =>
        /\ \E r \in patient_intake : r.user_id = user /\ r.symptoms = symptoms
        /\ \E r \in triage_results : r.user_id = user

\* C3: when handleDeleteData reports 'Data deleted' for the signed-in user,
\* no row with that user's user_id remains in chat_sessions, patient_intake,
\* triage_results or alerts.
C3_DataDeletedLeavesNoRows ==
    [][(settingsIsLoading /\ ~settingsIsLoading'
          /\ settingsToast' = "Data deleted") =>
          /\ {r \in chat_sessions' : r.user_id = user} = {}
          /\ {r \in patient_intake' : r.user_id = user} = {}
          /\ {r \in triage_results' : r.user_id = user} = {}
          /\ {r \in alerts' : r.user_id = user} = {}]_vars

\* C11: a user without the healthcare_staff role changes no existing
\* triage_results row and inserts or changes no alerts row; the only write
\* on triage_results open to such a user is the insert of a row with their
\* own user_id. While nobody is staff, alerts stays as it is and every
\* triage_results row stays as it is.
C11_OnlyStaffChangeResultsAndAlerts ==
    [][/\ \A uid \in Users :
            ~has_role(uid, "healthcare_staff") =>
                /\ \A i \in 1..MaxRows, g \in urgency_level :
                      UpdateTriageResult(uid, i, g) =>
                          triage_results' = triage_results
                /\ \A u \in Users, g \in urgency_level :
                      InsertTriageResult(uid, u, g) => u = uid
                /\ \A u \in Users : ~InsertAlert(uid, u)
                /\ \A i \in 1..MaxRows :
                      UpdateAlert(uid, i) => alerts' = alerts
       /\ (\A uid \in authUsers : ~has_role(uid, "healthcare_staff")) =>
              /\ alerts' = alerts
              /\ triage_results \subseteq triage_results']_vars

\* C11 witness: a user without the staff role owns a triage_results row and
\* an alerts row, both changed by staff (urgency raised, alert read).
C11_Witness ==
    \E u \in authUsers :
        /\ ~has_role(u, "healthcare_staff")
        /\ \E r \in triage_results : r.user_id = u /\ r.urgency = "high"
        /\ \E a \in alerts : a.user_id = u /\ a.is_read
        /\ \E s \in authUsers : has_role(s, "healthcare_staff")

\* C12: every UPDATE of a profiles or chat_sessions row sets its updated_at
\* to the time of that update whatever the statement supplied, updated_at
\* never decreases, and updated_at >= created_at holds for every row.
C12_UpdatedAtNeverBelowCreatedAt ==
    [][/\ \A r \in profiles, n \in profiles' :
            n.user_id = r.user_id =>
                /\ n # r => n.updated_at = now'
                /\ n.updated_at >= r.updated_at
       /\ \A r \in chat_sessions, n \in chat_sessions' :
            n.id = r.id =>
                /\ n # r => n.updated_at = now'
                /\ n.updated_at >= r.updated_at
       /\ \A n \in profiles' \cup chat_sessions' :
            n.updated_at >= n.created_at]_vars

\* C12 as amended: every UPDATE of a profiles or chat_sessions row sets its
\* updated_at to the time of that update, whatever value the statement
\* supplied for updated_at or for any other column.
C12_UpdateSetsUpdatedAtToNow ==
    [][/\ \A r \in profiles, n \in profiles' :
            (n.user_id = r.user_id /\ n # r) => n.updated_at = now'
       /\ \A r \in chat_sessions, n \in chat_sessions' :
            (n.id = r.id /\ n # r) => n.updated_at = now']_vars

\* C12 witness: a chat session updated after the clock moved on, and a
\* profile whose update supplied a created_at later than the update.
C12_Witness ==
    /\ \E r \in chat_sessions :
          r.status = "completed" /\ r.updated_at = now
            /\ r.updated_at > r.created_at
    /\ \E p \in profiles :
          p.full_name = "Ann" /\ p.updated_at = now /\ now > 0
            /\ p.created_at > p.updated_at

\* The triage results user u sees that were created on calendar day d.
CreatedOn(u, d) ==
    {r \in Select("triage_results", u) : DateOf(r.created_at) = d}

\* C13: the Daily Patient Volume chart has one bar for each of the last
\* seven calendar days, each bar's value is the number of triage results
\* created on that day, and a result older than that is counted in no bar.
C13_DailyVolumeOfLastSevenDays ==
    [][(analyticsIsLoading /\ ~analyticsIsLoading' /\ dailyData' # <<>>) =>
          /\ Len(dailyData') = 7
          /\ \A k \in 1..7 :
                LET d == DateOf(now) - (7 - k)
                IN /\ dailyData'[k].day = days[getDay(d) + 1]
                   /\ dailyData'[k].patients = Cardinality(CreatedOn(user, d))]_vars

\* chatSessions.length of My Case Summary: the chat_sessions rows the page
\* fetches with .eq('user_id', user.id).
TotalConversations(u) ==
    Cardinality({r \in Select("chat_sessions", u) : r.user_id = u})

\* C14: the 'Total conversations' figure counts one conversation once,
\* however many exchanges it has: the one conversation of the chatbot page
\* is stored as a single chat_sessions row.
C14_OneConversationOneRow ==
    user # NoUser => TotalConversations(user) <= 1

\* C15: a user without the healthcare_staff role does not come to have it
\* by any operation the row-level security policies permit.
C15_NoPolicyPermittedEscalation ==
    [][\A u \in authUsers :
          ~has_role(u, "healthcare_staff") =>
              ~\E r \in user_roles' :
                  r.user_id = u /\ r.role = "healthcare_staff"]_vars

\* C16: the triage result of an intake submission is 'high' exactly when
\* 'Chest pain' or 'Shortness of breath' is selected, otherwise 'medium'
\* exactly when more than 3 symptoms are selected, otherwise 'low', and its
\* recommended_action is the text of that urgency, for every subset of the
\* ten symptoms.
C16_IntakeUrgencyRule ==
    \A r \in triage_results :
        LET emergency == "Chest pain" \in symptoms
                            \/ "Shortness of breath" \in symptoms
            many == Cardinality(symptoms) > 3
        IN /\ r.urgency = "high" <=> emergency
           /\ r.urgency = "medium" <=> (~emergency /\ many)
           /\ r.urgency = "low" <=> (~emergency /\ ~many)
           /\ r.recommended_action =
                CASE r.urgency = "high" ->
                       "Seek immediate medical attention or call emergency services."
                  [] r.urgency = "medium" ->
                       "Schedule an appointment with your healthcare provider within 24-48 hours."
                  [] r.urgency = "low" ->
                       "Monitor symptoms and rest. Seek care if symptoms worsen."

\* C16 witness: a submission with exactly four symptoms, none of them an
\* emergency symptom, has a 'medium' result.
C16_Witness ==
    /\ isSubmitted
    /\ Cardinality(symptoms) = 4
    /\ \E r \in triage_results : r.user_id = user /\ r.urgency = "medium"

\* C17: the triage_results insert is attempted only after the patient_intake
\* insert succeeded; when that insert returns an error nothing is inserted
\* into triage_results, isSubmitted stays false, 'Failed to submit intake'
\* is shown and no redirect is scheduled; isLoading is false whenever the
\* handler finishes; without a signed-in user nothing is inserted.
C17_IntakeErrorHandling ==
    [][/\ intakePc' = "triage_results" =>
              /\ intakePc = "patient_intake"
              /\ \E r \in patient_intake' \ patient_intake : r.user_id = user
       /\ (intakePc = "patient_intake" /\ patient_intake' = patient_intake) =>
              /\ intakePc' = "idle"
              /\ triage_results' = triage_results
              /\ ~isSubmitted'
              /\ intakeToast' = "Failed to submit intake"
              /\ ~redirectScheduled'
       /\ (intakePc # "idle" /\ intakePc' = "idle") => ~intakeIsLoading'
       /\ user = NoUser =>
              /\ patient_intake' = patient_intake
              /\ triage_results' = triage_results
              /\ intakePc' = "idle"]_vars

\* C17 witness: a signed-in user's submission whose patient_intake insert
\* returned an error has finished.
C17_Witness ==
    /\ user # NoUser
    /\ intakeToast = "Failed to submit intake"
    /\ intakePc = "idle" /\ ~intakeIsLoading /\ ~isSubmitted
    /\ symptoms # {}
    /\ patient_intake = {} /\ triage_results = {}

\* C18: a submitted user message receives the fixed emergency reply if and
\* only if it contains an emergency keyword, whatever the number of earlier
\* messages, and the assistant message appended for it has isEmergency true
\* exactly in that case.
C18_EmergencyReplyIffKeyword ==
    \A i \in 2..Len(messages) :
        (messages[i].role = "assistant" /\ messages[i - 1].role = "user") =>
            LET keyword == ContainsKeywordIgnoringCase(messages[i - 1].content)
            IN /\ messages[i].content = EmergencyResponse <=> keyword
               /\ messages[i].isEmergency <=> keyword

\* C18 witness: the fourth user message, after three that were no
\* emergency, got the emergency reply, and the fifth a canned response.
C18_Witness ==
    /\ Len(messages) >= 11
    /\ \A i \in {3, 5, 7} : ~messages[i].isEmergency
    /\ messages[9].isEmergency /\ messages[9].content = EmergencyResponse
    /\ ~messages[11].isEmergency /\ messages[11].content = responses[5]

\* C19: at most one bot reply is pending; a submit with blank input or
\* while isLoading appends nothing; the message list is the greeting
\* followed by user and assistant messages in strict alternation; every
\* accepted user message is eventually followed by its assistant reply.
C19_OneReplyPendingAndAlternation ==
    /\ [](/\ Len(timer) <= 1
          /\ chatIsLoading <=> timer # <<>>
          /\ messages[1] = INITIAL_MESSAGE
          /\ \A i \in 2..Len(messages) :
                messages[i].role = IF i % 2 = 0 THEN "user" ELSE "assistant"
          /\ chatIsLoading <=> Len(messages) % 2 = 0)
    /\ [][(Len(messages') > Len(messages)
             /\ messages'[Len(messages')].role = "user") =>
              /\ trim(input) # <<>>
              /\ ~chatIsLoading
              /\ messages'[Len(messages')].content # <<>>]_vars
    /\ \A n \in 1..MaxFairMessages :
          (Len(messages) = 2 * n) ~>
              (Len(messages) >= 2 * n + 1
                 /\ messages[2 * n + 1].role = "assistant")

\* C19 witness: a blank input stands in the box after two exchanges.
C19_Witness ==
    /\ Len(messages) = 5
    /\ input # <<>> /\ trim(input) = <<>>
    /\ ~chatIsLoading

\* C20: each time a bot reply is produced for a signed-in user, the messages
\* written to chat_sessions are, in order, the messages on screen right
\* after that reply; with no user signed in nothing is written.
C20_SavedMessagesAreTheScreen ==
    [][(timer # <<>> /\ timer' = <<>>) =>
          /\ user = NoUser => chat_sessions' = chat_sessions
          /\ \A r \in chat_sessions' \ chat_sessions :
                /\ r.user_id = user
                /\ r.messages =
                     [i \in 1..Len(messages') |->
                        [role |-> messages'[i].role,
                         content |-> messages'[i].content]]]_vars

\* C20 witness: the row saved with the third reply holds the seven messages
\* on screen.
C20_Witness ==
    /\ user # NoUser
    /\ Len(messages) = 7
    /\ \E r \in chat_sessions : r.user_id = user /\ Len(r.messages) = 7

====
